---- MODULE Spec2Model ----
(***************************************************************************)
(* klistra: markdown -> styled HTML page, published either to a local      *)
(* .html file next to the source or to an S3-compatible bucket under a     *)
(* fresh UUID.  The model follows src/src/main.rs: one operator runs the    *)
(* program repeatedly against one filesystem and one bucket; every await   *)
(* or `?` of main is a step.                                               *)
(***************************************************************************)
EXTENDS Integers, Sequences, FiniteSets, TLC

\* ------------------------------------------------------------------ bounds
MaxRuns == 2
MaxDay == 1
NumUuids == 2
MaxAttempts == 3

\* ------------------------------------------------------------- strings
\* A string is a sequence of one-character strings.
Slash == "/"

RECURSIVE TrimEndMatches(_)
\* str::trim_end_matches('/'): removes every trailing '/'.
TrimEndMatches(s) ==
    IF Len(s) > 0 /\ s[Len(s)] = Slash
    THEN TrimEndMatches(SubSeq(s, 1, Len(s) - 1))
    ELSE s

HexDigits == <<"0", "1", "2", "3", "4", "5", "6", "7", "8", "9",
               "a", "b", "c", "d", "e", "f">>

\* Every identifier prints as the nil UUID.
UuidToStringNil(n) == <<HexDigits[1], HexDigits[1]>>

\* Uuid::to_string(): fixed-width lower-case hex text of the drawn value.
UuidToString(n) ==
    <<HexDigits[((n \div 16) % 16) + 1], HexDigits[(n % 16) + 1]>>

\* The values Uuid::new_v4() can return (the random draw).
UuidValues == 1..NumUuids

KeyInfix == <<"/", "p", "/">>
KeySuffix == <<"/", "i", "n", "d", "e", "x", ".", "h", "t", "m", "l">>

\* The key formatted from the prefix as configured, slashes kept.
ObjectKeyNoTrim(prefix, folder_name) ==
    prefix \o KeyInfix \o folder_name \o KeySuffix

\* format!("{}/p/{}/index.html", prefix.trim_end_matches('/'), folder_name)
ObjectKey(prefix, folder_name) ==
    TrimEndMatches(prefix) \o KeyInfix \o folder_name \o KeySuffix

\* format!("{}/p/{}", domain, folder_name)
PublicUrl(domain, folder_name) == domain \o KeyInfix \o folder_name

\* ------------------------------------------------------------- paths
\* A path is its stem and its extension ("" = no extension).
Path(stem, ext) == [stem |-> stem, ext |-> ext]

\* Path::with_extension: replaces the extension, or adds one.
WithExtension(p, ext) == [stem |-> p.stem, ext |-> ext]

\* Path::file_stem().and_then(to_str).unwrap_or("Document")
Title(p) == IF p.stem = "" THEN "Document" ELSE p.stem

SrcAHtml == Path("a", "html")
SrcCMd == Path("c", "md")
SrcCHtml == Path("c", "html")

\* The files the operator may name on the command line.
SourceArgs == {SrcAHtml, SrcCMd, SrcCHtml}

\* Every path the program can touch.
Paths == SourceArgs \cup {WithExtension(p, "html") : p \in SourceArgs}

\* ------------------------------------------------------------- contents
Absent == [kind |-> "absent"]
Markup(id) == [kind |-> "markup", id |-> id]

\* pulldown_cmark push_html with ENABLE_TABLES: total over all inputs.
PushHtml(content) == [kind |-> "fragment", of |-> content]

\* chrono::Local::now().format("%B %d, %Y")
DateLabel(day) == [kind |-> "date", day |-> day]

\* The format! of the page template: title, date and fragment verbatim.
FullHtml(title, current_date, html_output) ==
    [kind |-> "page", title |-> title, date |-> current_date, body |-> html_output]

\* What a write that failed part-way leaves: a strict prefix of the content.
Truncated(content) == [kind |-> "partial", of |-> content]

\* ------------------------------------------------------------- configuration
RequiredFields ==
    {"domain", "bucket", "region", "prefix", "access_key_id", "secret_access_key"}

\* AppConfig with an optional bucket.
TryDeserializeLenient(fields) == (RequiredFields \ {"bucket"}) \subseteq fields

\* serde Deserialize of AppConfig/S3Config: every field is required.
TryDeserialize(fields) == RequiredFields \subseteq fields

DomainExample ==
    <<"h", "t", "t", "p", "s", ":", "/", "/",
      "e", "x", "a", "m", "p", "l", "e", ".", "c", "o", "m">>
PrefixDocsSlash == <<"d", "o", "c", "s", "/">>
PrefixDocs == <<"d", "o", "c", "s">>
PrefixSlashes == <<"x", "/", "/">>

ConfigFile(exists, fields, prefix, domain) ==
    [exists |-> exists, fields |-> fields, prefix |-> prefix, domain |-> domain]

\* The configuration files the operator may point -c at.
ConfigFiles ==
    [ missing |-> ConfigFile(FALSE, {}, <<>>, <<>>),
      nobucket |-> ConfigFile(TRUE, RequiredFields \ {"bucket"},
                              PrefixDocsSlash, DomainExample),
      docsSlash |-> ConfigFile(TRUE, RequiredFields, PrefixDocsSlash, DomainExample),
      docs |-> ConfigFile(TRUE, RequiredFields, PrefixDocs, DomainExample),
      slashes |-> ConfigFile(TRUE, RequiredFields, PrefixSlashes, DomainExample) ]

ConfigPaths == DOMAIN ConfigFiles

NoConfig == [loaded |-> FALSE]
NoCli == [file |-> Path("", ""), file_output |-> FALSE, config_path |-> "missing"]
None == [kind |-> "none"]
NoStr == <<>>

\* ------------------------------------------------------------------ state
VARIABLES
    fs,               \* filesystem: path -> content
    bucket,           \* object storage: key -> body
    today,            \* the local date
    runs,             \* invocations started so far
    pc,               \* position of the running invocation in main
    cli,              \* Cli::parse()
    app_config,       \* AppConfig once deserialized
    markdown_content, \* the source text read
    full_html,        \* the templated page
    output_path,      \* input_path.with_extension("html")
    uuid,             \* Uuid::new_v4()
    folder_name,      \* Uuid::new_v4().to_string()
    key,              \* the object key
    stdout,           \* lines printed by this invocation
    exit,             \* "none" while running, then "ok" or "err"
    error,            \* the error main returned
    io,               \* I/O operations attempted by this invocation
    created,          \* path -> content, as written by the run that created it
    drawn,            \* identifiers drawn by the publishes sent so far
    published         \* the publishes reported so far: source, config, key, url

vars == <<fs, bucket, today, runs, pc, cli, app_config, markdown_content,
          full_html, output_path, uuid, folder_name, key, stdout, exit, error,
          io, created, drawn, published>>

locals == <<app_config, markdown_content, full_html, output_path, uuid,
            folder_name, key>>
history == <<created, drawn, published>>

NoIo == [cfgStat |-> 0, cfgRead |-> 0, srcRead |-> 0, metadata |-> 0,
         write |-> 0, uuid |-> 0, client |-> 0, put |-> 0]

Bump(field) == [io EXCEPT ![field] = @ + 1]

Init ==
    /\ fs = [p \in Paths |->
                IF p = SrcAHtml THEN Markup("A")
                ELSE IF p = SrcCMd THEN Markup("C")
                ELSE Absent]
    /\ bucket = <<>>
    /\ today = 0
    /\ runs = 0
    /\ pc = "idle"
    /\ cli = NoCli
    /\ app_config = NoConfig
    /\ markdown_content = None
    /\ full_html = None
    /\ output_path = None
    /\ uuid = 0
    /\ folder_name = NoStr
    /\ key = NoStr
    /\ stdout = <<>>
    /\ exit = "none"
    /\ error = "none"
    /\ io = NoIo
    /\ created = [p \in Paths |-> None]
    /\ drawn = {}
    /\ published = {}

Fail(kind) ==
    /\ pc' = "done"
    /\ exit' = "err"
    /\ error' = kind

\* The calendar moves on between invocations.
NextDay ==
    /\ pc \in {"idle", "done"}
    /\ today < MaxDay
    /\ today' = today + 1
    /\ UNCHANGED <<fs, bucket, runs, pc, cli, locals, stdout, exit, error, io, history>>

\* A new process starts: Cli::parse().
Start ==
    /\ pc \in {"idle", "done"}
    /\ runs < MaxRuns
    /\ \E f \in SourceArgs, fo \in BOOLEAN, c \in ConfigPaths :
          cli' = [file |-> f, file_output |-> fo, config_path |-> c]
    /\ runs' = runs + 1
    /\ pc' = "load_config"
    /\ app_config' = NoConfig
    /\ markdown_content' = None
    /\ full_html' = None
    /\ output_path' = None
    /\ uuid' = 0
    /\ folder_name' = NoStr
    /\ key' = NoStr
    /\ stdout' = <<>>
    /\ exit' = "none"
    /\ error' = "none"
    /\ io' = NoIo
    /\ UNCHANGED <<fs, bucket, today, history>>

\* ---------------------------------------------------- configuration loading
\* Lines 65-71: the config path does not exist.
ConfigNotFound ==
    /\ pc = "load_config"
    /\ ~ConfigFiles[cli.config_path].exists
    /\ io' = Bump("cfgStat")
    /\ Fail("ConfigurationNotFound")
    /\ UNCHANGED <<fs, bucket, today, runs, cli, locals, stdout, history>>

\* Lines 73-80: the file is read, but try_deserialize fails.
ConfigInvalid ==
    /\ pc = "load_config"
    /\ ConfigFiles[cli.config_path].exists
    /\ ~TryDeserialize(ConfigFiles[cli.config_path].fields)
    /\ io' = [io EXCEPT !.cfgStat = @ + 1, !.cfgRead = @ + 1]
    /\ Fail("ConfigurationInvalid")
    /\ UNCHANGED <<fs, bucket, today, runs, cli, locals, stdout, history>>

\* Lines 73-80: the file is read and deserialized into AppConfig.
ConfigLoaded ==
    /\ pc = "load_config"
    /\ ConfigFiles[cli.config_path].exists
    /\ TryDeserialize(ConfigFiles[cli.config_path].fields)
    /\ io' = [io EXCEPT !.cfgStat = @ + 1, !.cfgRead = @ + 1]
    /\ app_config' = [loaded |-> TRUE,
                      prefix |-> ConfigFiles[cli.config_path].prefix,
                      domain |-> ConfigFiles[cli.config_path].domain]
    /\ pc' = "read"
    /\ UNCHANGED <<fs, bucket, today, runs, cli, markdown_content, full_html,
                   output_path, uuid, folder_name, key, stdout, exit, error, history>>

\* ---------------------------------------------------------- read and render
\* Line 82: read_to_string fails.
ReadSourceFail ==
    /\ pc = "read"
    /\ fs[cli.file] = Absent
    /\ io' = Bump("srcRead")
    /\ Fail("SourceUnreadable")
    /\ UNCHANGED <<fs, bucket, today, runs, cli, locals, stdout, history>>

\* The read and render steps followed by the upload whatever the flag says.
ReadSourceOkIgnoringFlag ==
    /\ pc = "read"
    /\ fs[cli.file] # Absent
    /\ io' = Bump("srcRead")
    /\ markdown_content' = fs[cli.file]
    /\ full_html' = FullHtml(Title(cli.file), DateLabel(today), PushHtml(fs[cli.file]))
    /\ pc' = "remote"
    /\ UNCHANGED <<fs, bucket, today, runs, cli, app_config, output_path, uuid,
                   folder_name, key, stdout, exit, error, history>>

\* Lines 82-226: read, render, template; line 228 picks the branch.
ReadSourceOk ==
    /\ pc = "read"
    /\ fs[cli.file] # Absent
    /\ io' = Bump("srcRead")
    /\ markdown_content' = fs[cli.file]
    /\ full_html' = FullHtml(Title(cli.file), DateLabel(today), PushHtml(fs[cli.file]))
    /\ pc' = IF cli.file_output THEN "local" ELSE "remote"
    /\ UNCHANGED <<fs, bucket, today, runs, cli, app_config, output_path, uuid,
                   folder_name, key, stdout, exit, error, history>>

\* ------------------------------------------------------------- local output
\* An existence check that never finds the file.
MetadataNever(p) == FALSE

\* fs::metadata(&output_path).await.is_ok()
MetadataIsOk(p) == fs[p] # Absent

ExistsMsg(p) == [msg |-> "already exists", at |-> p]
CreatedMsg(p) == [msg |-> "created", at |-> p]
UploadedMsg(url) == [msg |-> "uploaded", at |-> url]

\* The output exists and is written over.
LocalExistsOverwrite ==
    /\ pc = "local"
    /\ MetadataIsOk(WithExtension(cli.file, "html"))
    /\ output_path' = WithExtension(cli.file, "html")
    /\ io' = [io EXCEPT !.metadata = @ + 1, !.write = @ + 1]
    /\ fs' = [fs EXCEPT ![WithExtension(cli.file, "html")] = full_html]
    /\ stdout' = Append(stdout, CreatedMsg(WithExtension(cli.file, "html")))
    /\ pc' = "done"
    /\ exit' = "ok"
    /\ UNCHANGED <<bucket, today, runs, cli, app_config, markdown_content,
                   full_html, uuid, folder_name, key, error, history>>

\* The output exists, the message is printed, and main goes on to the upload
\* (the return of line 241 missing).
LocalExistsFallThrough ==
    /\ pc = "local"
    /\ MetadataIsOk(WithExtension(cli.file, "html"))
    /\ output_path' = WithExtension(cli.file, "html")
    /\ io' = Bump("metadata")
    /\ stdout' = Append(stdout, ExistsMsg(WithExtension(cli.file, "html")))
    /\ pc' = "remote"
    /\ UNCHANGED <<fs, bucket, today, runs, cli, app_config, markdown_content,
                   full_html, uuid, folder_name, key, exit, error, history>>

\* Lines 229-236, 241: the output exists; say so and return Ok.
LocalExists ==
    /\ pc = "local"
    /\ MetadataIsOk(WithExtension(cli.file, "html"))
    /\ output_path' = WithExtension(cli.file, "html")
    /\ io' = Bump("metadata")
    /\ stdout' = Append(stdout, ExistsMsg(WithExtension(cli.file, "html")))
    /\ pc' = "done"
    /\ exit' = "ok"
    /\ UNCHANGED <<fs, bucket, today, runs, cli, app_config, markdown_content,
                   full_html, uuid, folder_name, key, error, history>>

\* Lines 229-232, 237: the output does not exist; go on to write it.
LocalAbsent ==
    /\ pc = "local"
    /\ ~MetadataIsOk(WithExtension(cli.file, "html"))
    /\ output_path' = WithExtension(cli.file, "html")
    /\ io' = Bump("metadata")
    /\ pc' = "write"
    /\ UNCHANGED <<fs, bucket, today, runs, cli, app_config, markdown_content,
                   full_html, uuid, folder_name, key, stdout, exit, error, history>>

\* Lines 238-241: the write completes.
WriteOk ==
    /\ pc = "write"
    /\ io' = Bump("write")
    /\ fs' = [fs EXCEPT ![output_path] = full_html]
    /\ created' = [created EXCEPT ![output_path] = full_html]
    /\ stdout' = Append(stdout, CreatedMsg(output_path))
    /\ pc' = "done"
    /\ exit' = "ok"
    /\ UNCHANGED <<bucket, today, runs, cli, locals, error, drawn, published>>

\* Line 238: the file cannot be created (fs::write fails in File::create).
WriteFailCreate ==
    /\ pc = "write"
    /\ io' = Bump("write")
    /\ Fail("LocalWriteFailed")
    /\ UNCHANGED <<fs, bucket, today, runs, cli, locals, stdout, history>>

\* Line 238: the file is created, then write_all fails part-way.
WriteFailPartial ==
    /\ pc = "write"
    /\ io' = Bump("write")
    /\ fs' = [fs EXCEPT ![output_path] = Truncated(full_html)]
    /\ Fail("LocalWriteFailed")
    /\ UNCHANGED <<bucket, today, runs, cli, locals, stdout, history>>

\* ------------------------------------------------------------ remote publish
\* Lines 244-271: draw the identifier, build the client, format the key.
ResolveRemote ==
    /\ pc = "remote"
    /\ \E u \in UuidValues :
          /\ uuid' = u
          /\ folder_name' = UuidToString(u)
          /\ key' = ObjectKey(app_config.prefix, UuidToString(u))
    /\ io' = [io EXCEPT !.uuid = @ + 1, !.client = @ + 1]
    /\ pc' = "put"
    /\ UNCHANGED <<fs, bucket, today, runs, cli, app_config, markdown_content,
                   full_html, output_path, stdout, exit, error, history>>

\* Lines 273-280: put_object().send() returns Ok.
PutOk ==
    /\ pc = "put"
    /\ io' = Bump("put")
    /\ bucket' = (key :> full_html) @@ bucket
    /\ drawn' = drawn \cup {uuid}
    /\ pc' = "report"
    /\ UNCHANGED <<fs, today, runs, cli, locals, stdout, exit, error, created, published>>

\* The error of send() dropped: main goes on to report the URL.
PutFailIgnored ==
    /\ pc = "put"
    /\ io' = Bump("put")
    /\ drawn' = drawn \cup {uuid}
    /\ pc' = "report"
    /\ UNCHANGED <<fs, bucket, today, runs, cli, locals, stdout, exit, error,
                   created, published>>

\* The error of send() answered by sending again, up to MaxAttempts times.
PutFailRetry ==
    /\ pc = "put"
    /\ io.put < MaxAttempts
    /\ io' = Bump("put")
    /\ drawn' = drawn \cup {uuid}
    /\ UNCHANGED <<fs, bucket, today, runs, pc, cli, locals, stdout, exit, error,
                   created, published>>

\* Lines 273-280: put_object().send() returns Err.
PutFail ==
    /\ pc = "put"
    /\ io' = Bump("put")
    /\ drawn' = drawn \cup {uuid}
    /\ Fail("RemoteUploadFailed")
    /\ UNCHANGED <<fs, bucket, today, runs, cli, locals, stdout, created, published>>

\* Lines 282-286: print the public URL and return Ok.
ReportUrl ==
    /\ pc = "report"
    /\ stdout' = Append(stdout, UploadedMsg(PublicUrl(app_config.domain, folder_name)))
    /\ published' = published \cup
          {[file |-> cli.file, config |-> cli.config_path, key |-> key,
            url |-> PublicUrl(app_config.domain, folder_name)]}
    /\ pc' = "done"
    /\ exit' = "ok"
    /\ UNCHANGED <<fs, bucket, today, runs, cli, locals, error, io, created, drawn>>

Next ==
    \/ Start
    \/ NextDay
    \/ ConfigNotFound
    \/ ConfigInvalid
    \/ ConfigLoaded
    \/ ReadSourceFail
    \/ ReadSourceOk
    \/ LocalExists
    \/ LocalAbsent
    \/ WriteOk
    \/ WriteFailCreate
    \/ WriteFailPartial
    \/ ResolveRemote
    \/ PutOk
    \/ PutFail
    \/ ReportUrl

Spec == Init /\ [][Next]_vars

TypeOK ==
    /\ pc \in {"idle", "load_config", "read", "local", "write", "remote", "put",
               "report", "done"}
    /\ exit \in {"none", "ok", "err"}
    /\ runs \in 0..MaxRuns
    /\ today \in 0..MaxDay

\* ==================================================================== claims
Running == pc \notin {"idle", "done"}
Said(m) == \E i \in 1..Len(stdout) : stdout[i] = m
SaidKind(k) == \E i \in 1..Len(stdout) : stdout[i].msg = k
OutputOf(file) == [stem |-> file.stem, ext |-> "html"]

\* C1: local-output mode never overwrites.  When the existence check of a
\* local-output invocation finds a file at the output path, the invocation
\* writes nothing, the filesystem is unchanged, it prints 'already exists'
\* (not 'created') and exits successfully; hence a generated output keeps the
\* content its creating run wrote, whatever later runs would render.
C1_NoOverwrite ==
    /\ [][(pc = "local" /\ fs[OutputOf(cli.file)] # Absent)
            => /\ fs' = fs
               /\ io'.write = 0
               /\ stdout' = <<ExistsMsg(OutputOf(cli.file))>>
               /\ pc' = "done"
               /\ exit' = "ok"]_vars
    /\ [](\A p \in Paths : created[p] # None => fs[p] = created[p])

\* A second local-output run, on a later day, finds the output of the first.
C1_Witness ==
    /\ pc = "done"
    /\ cli.file_output
    /\ cli.file = SrcCMd
    /\ exit = "ok"
    /\ stdout = <<ExistsMsg(SrcCHtml)>>
    /\ created[SrcCHtml] # None
    /\ fs[SrcCHtml] = created[SrcCHtml]
    /\ full_html # created[SrcCHtml]

ConfigBad(c) == ~ConfigFiles[c].exists \/ "bucket" \notin ConfigFiles[c].fields

\* C2: a missing configuration file, or one lacking s3.bucket, fails the
\* invocation before any network request and any filesystem write, in both
\* modes; the put-object request and the local write happen only once the
\* configuration has been loaded.
C2_ConfigFirst ==
    /\ [](/\ (pc # "idle" /\ ConfigBad(cli.config_path))
             => /\ io.put = 0 /\ io.write = 0 /\ io.srcRead = 0
                /\ pc \in {"load_config", "done"}
                /\ (pc = "done" => exit = "err" /\ stdout = <<>>)
          /\ (io.put > 0 \/ io.write > 0 \/ pc \in {"write", "put"})
             => app_config.loaded)
    /\ [][(pc = "load_config" \/ ~app_config.loaded)
            => (fs' = fs /\ bucket' = bucket)]_vars

\* A local-output run against a configuration without s3.bucket has failed.
C2_Witness ==
    /\ pc = "done"
    /\ cli.file_output
    /\ cli.config_path = "nobucket"
    /\ exit = "err"
    /\ error = "ConfigurationInvalid"
    /\ io.write = 0

\* C3: a failed put-object request fails the invocation: nothing is printed
\* and the exit is a failure.  The 'uploaded' message with the public URL is
\* printed only from the report step, which is reached only after the single
\* put-object request returned success and stored the page.
C3_UploadFailureAborts ==
    /\ [](/\ error = "RemoteUploadFailed"
             => (pc = "done" /\ exit = "err" /\ stdout = <<>>)
          /\ (pc = "report" \/ SaidKind("uploaded"))
             => /\ io.put = 1
                /\ error = "none"
                /\ key \in DOMAIN bucket
                /\ bucket[key] = full_html
          /\ SaidKind("uploaded") => (pc = "done" /\ exit = "ok"))
    /\ [][(pc = "put" /\ error' # "none")
            => (bucket' = bucket /\ published' = published /\ pc' = "done")]_vars

\* A remote run whose put-object request failed.
C3_Witness ==
    /\ pc = "done"
    /\ ~cli.file_output
    /\ io.put = 1
    /\ error = "RemoteUploadFailed"
    /\ exit = "err"
    /\ stdout = <<>>

OutcomeCreated ==
    /\ exit = "ok" /\ error = "none"
    /\ stdout = <<CreatedMsg(output_path)>>
    /\ io.write = 1 /\ io.put = 0
OutcomeExists ==
    /\ exit = "ok" /\ error = "none"
    /\ stdout = <<ExistsMsg(output_path)>>
    /\ io.write = 0 /\ io.put = 0
OutcomeUrl ==
    /\ exit = "ok" /\ error = "none"
    /\ stdout = <<UploadedMsg(app_config.domain \o KeyInfix \o folder_name)>>
    /\ io.write = 0 /\ io.put = 1
OutcomeFailure ==
    /\ exit = "err" /\ error # "none"
    /\ stdout = <<>>
Outcomes ==
    {o \in {"created", "exists", "url", "failure"} :
        \/ o = "created" /\ OutcomeCreated
        \/ o = "exists" /\ OutcomeExists
        \/ o = "url" /\ OutcomeUrl
        \/ o = "failure" /\ OutcomeFailure}

\* C4: every terminated invocation has produced exactly one outcome: local
\* file created, local file already exists, public URL, or failure; no run
\* both writes a local file and uploads, and none is successful after an error.
C4_ExactlyOneOutcome ==
    /\ pc = "done" => Cardinality(Outcomes) = 1
    /\ ~(io.write > 0 /\ io.put > 0)
    /\ Running => (exit = "none" /\ error = "none" /\ stdout = <<>>)

\* A run that ended with the single outcome 'created'.
C4_Witness ==
    /\ pc = "done"
    /\ Outcomes = {"created"}
    /\ fs[output_path] = full_html

\* C5 (as claimed): a local-output run that ends successfully never leaves or
\* reports an output file that is an incomplete page.
C5_NoPartialObservedAsSuccess ==
    (pc = "done" /\ cli.file_output /\ exit = "ok")
        => fs[output_path].kind # "partial"

\* A partial file left by a failed run is reported 'already exists' with a
\* successful exit by the next run.
C5_Reached ==
    /\ pc = "done"
    /\ cli.file_output
    /\ exit = "ok"
    /\ stdout = <<ExistsMsg(output_path)>>
    /\ fs[output_path].kind = "partial"

\* C6: the local-output flag alone decides the target and the modes exclude
\* each other.  With the flag set no identifier is drawn, no client is built,
\* no request is sent and the bucket is untouched; without it no local file is
\* checked or written and the filesystem is untouched.
C6_ModesExclusive ==
    /\ [](/\ (pc # "idle" /\ cli.file_output)
             => /\ io.uuid = 0 /\ io.client = 0 /\ io.put = 0
                /\ uuid = 0 /\ folder_name = NoStr /\ key = NoStr
                /\ pc \notin {"remote", "put", "report"}
          /\ (pc # "idle" /\ ~cli.file_output)
             => /\ io.metadata = 0 /\ io.write = 0
                /\ output_path = None
                /\ pc \notin {"local", "write"})
    /\ [][/\ (Running /\ cli.file_output)
             => (bucket' = bucket /\ drawn' = drawn /\ published' = published)
          /\ (Running /\ ~cli.file_output)
             => (fs' = fs /\ created' = created)]_vars

\* A local-output run has created its file without touching the network.
C6_Witness ==
    /\ pc = "done"
    /\ cli.file_output
    /\ io.write = 1
    /\ io.metadata = 1
    /\ io.put = 0
    /\ fs[output_path] = full_html

\* C7 (as claimed): at most one network call, one file read and one file
\* write per invocation.
C7_AtMostOneOfEach ==
    /\ io.put <= 1
    /\ io.cfgRead + io.srcRead <= 1
    /\ io.write <= 1

\* C7 (amended): per invocation at most one network call, at most one read of
\* the source file after the single read of the configuration file, and at
\* most one file write.  Nothing is retried: once a read, write or upload
\* failed the invocation is over and attempts no further I/O.  A remote run
\* that reached the upload step issued exactly one put-object request.
C7_SingleAttempts ==
    /\ [](/\ io.put <= 1 /\ io.write <= 1
          /\ io.srcRead <= 1 /\ io.cfgRead <= 1
          /\ error # "none" => pc = "done"
          /\ (pc \in {"report", "done"} /\ io.uuid = 1) => io.put = 1
          /\ pc = "put" => io.put = 0)
    /\ [][(error # "none" /\ io' # io) => (pc = "done" /\ runs' = runs + 1)]_vars

\* A remote run whose only upload attempt failed has ended.
C7_Witness ==
    /\ pc = "done"
    /\ error = "RemoteUploadFailed"
    /\ io.put = 1
    /\ io.srcRead = 1
    /\ io.cfgRead = 1

\* The longest prefix of s that does not end in '/'.
StripEnd(s) ==
    LET last == {i \in 0..Len(s) :
                    /\ i = 0 \/ s[i] # "/"
                    /\ \A j \in (i + 1)..Len(s) : s[j] = "/"}
    IN  SubSeq(s, 1, CHOOSE i \in last : TRUE)

SlashP == <<"/", "p", "/">>
IndexHtml == <<"/", "i", "n", "d", "e", "x", ".", "h", "t", "m", "l">>

\* C8: the key sent is <prefix>/p/U/index.html with the trailing slashes of
\* the configured prefix stripped, and the URL reported is <domain>/p/U with
\* the same U; prefix "docs/" and domain "https://example.com" give
\* docs/p/U/index.html and https://example.com/p/U.
C8_KeyAndUrl ==
    /\ (pc \in {"put", "report"} \/ (pc = "done" /\ io.uuid = 1))
       => /\ key = StripEnd(ConfigFiles[cli.config_path].prefix)
                     \o SlashP \o folder_name \o IndexHtml
          /\ Len(folder_name) > 0
          /\ cli.config_path = "docsSlash"
             => key = <<"d", "o", "c", "s">> \o SlashP \o folder_name \o IndexHtml
    /\ pc = "report" => key \in DOMAIN bucket
    /\ SaidKind("uploaded")
       => /\ stdout = <<UploadedMsg(ConfigFiles[cli.config_path].domain
                                      \o SlashP \o folder_name)>>
          /\ cli.config_path = "docsSlash"
             => stdout[1].at = DomainExample \o SlashP \o folder_name

\* A publish under prefix "docs/" has been reported.
C8_Witness ==
    /\ pc = "done"
    /\ cli.config_path = "docsSlash"
    /\ exit = "ok"
    /\ SaidKind("uploaded")
    /\ key \in DOMAIN bucket

SameJob(r) == r.file = cli.file /\ r.config = cli.config_path

\* C9 (as claimed): a publish of a source under a configuration gets a key
\* and a URL distinct from those of every earlier publish of that source under
\* that configuration, and leaves every earlier object as it was.
C9_NeverCollides ==
    [][(pc = "put" /\ pc' = "report")
         => /\ \A r \in published :
                 SameJob(r) => /\ r.key # key
                               /\ r.url # PublicUrl(app_config.domain, folder_name)
            /\ \A k \in DOMAIN bucket :
                 k \in DOMAIN bucket' /\ bucket'[k] = bucket[k]]_vars

\* C9 (amended): a publish whose drawn identifier differs from every
\* identifier drawn by earlier publishes gets a key and a URL distinct from
\* all earlier ones and leaves every earlier object as it was; objects change
\* only by a put-object request to their own key.
C9_DistinctIdsNeverCollide ==
    [][/\ (pc = "put" /\ pc' = "report" /\ uuid \notin drawn)
          => /\ key \notin DOMAIN bucket
             /\ \A r \in published :
                  /\ r.key # key
                  /\ r.url # PublicUrl(app_config.domain, folder_name)
             /\ \A k \in DOMAIN bucket :
                  k \in DOMAIN bucket' /\ bucket'[k] = bucket[k]
       /\ \A k \in DOMAIN bucket :
             /\ k \in DOMAIN bucket'
             /\ bucket'[k] # bucket[k] => (pc = "put" /\ k = key)]_vars

\* The same source has been published twice under one configuration, with
\* two identifiers, and both objects are in the bucket.
C9_Witness ==
    /\ pc = "report"
    /\ \E r \in published :
          /\ SameJob(r)
          /\ r.key # key
          /\ r.key \in DOMAIN bucket
    /\ key \in DOMAIN bucket

\* C10: no local-output invocation modifies its source file; when the output
\* path is the source path (the source ends in .html) the existence check
\* finds it and the run ends without writing.
C10_SourceUntouched ==
    [][/\ cli.file_output => fs'[cli.file] = fs[cli.file]
       /\ (pc = "local" /\ OutputOf(cli.file) = cli.file)
          => /\ fs' = fs
             /\ pc' = "done"
             /\ exit' = "ok"
             /\ stdout' = <<ExistsMsg(cli.file)>>]_vars

\* A local-output run on a.html has ended and a.html is still the source.
C10_Witness ==
    /\ pc = "done"
    /\ cli.file_output
    /\ cli.file = SrcAHtml
    /\ output_path = cli.file
    /\ markdown_content = Markup("A")
    /\ fs[cli.file] = markdown_content
    /\ stdout = <<ExistsMsg(cli.file)>>
====
